---- MODULE Spec2Model ----
(***************************************************************************)
(* A model of the purchase-order pipeline in purchasing-metrics.py (the    *)
(* "robust" variant, with logging and per-file error isolation) and in     *)
(* purchasing-metrics-mb.py (the "mb" variant, a flat script).             *)
(*                                                                         *)
(* Text is a sequence of one-character strings, so that lower-casing,      *)
(* replacing, padding, substring tests and number formatting are computed  *)
(* character by character.  A cell is a record [k, s, n]: k is the kind    *)
(* ("null", "str", "int", "float", "ts"), s the text of a "str" cell and n *)
(* the number of an "int" cell, the whole value of a "float" cell or the   *)
(* time of a "ts" cell.  Time is counted in                                *)
(* ticks, TicksPerDay to the day, from 2024-01-00 00:00.  A table is a     *)
(* record [columns, dtypes, rows]; every row is a sequence of cells, one   *)
(* per column.                                                             *)
(***************************************************************************)
EXTENDS Integers, Sequences, FiniteSets, TLC

VARIABLES variant, dir, now, pc, idx, all_dataframes, combined, attempted,
          written, error, log, past_due, exit_code

vars == <<variant, dir, now, pc, idx, all_dataframes, combined, attempted,
          written, error, log, past_due, exit_code>>

\* ------------------------------------------------------------------ bounds

\* Files in the source directory of a loader scenario.
MaxFiles == 2
\* Rows of one file of a loader scenario.
MaxRows == 1
\* Rows of the file of a date scenario.
MaxDateRows == 2
\* Rows of the file of a past-due scenario.
MaxDueRows == 2
\* Rows of the file of a signed-supplier scenario.
MaxSignRows == 2
\* Clock ticks per day (2: midnight and noon).
TicksPerDay == 2
\* The day of January 2024 on which the run happens.
TodayDay == 10

\* -------------------------------------------------------------------- text

Upper == <<"A","B","C","D","E","F","G","H","I","J","K","L","M",
           "N","O","P","Q","R","S","T","U","V","W","X","Y","Z">>
LowerLetters == <<"a","b","c","d","e","f","g","h","i","j","k","l","m",
                  "n","o","p","q","r","s","t","u","v","w","x","y","z">>
Digits == <<"0","1","2","3","4","5","6","7","8","9">>

\* str.lower() on one character.
LowerChar(c) ==
    IF \E i \in 1..Len(Upper) : Upper[i] = c
    THEN LowerLetters[CHOOSE i \in 1..Len(Upper) : Upper[i] = c]
    ELSE c

\* str.lower()
Lower(s) == [i \in 1..Len(s) |-> LowerChar(s[i])]

\* str.replace(" ", "_")
ReplaceSpaces(s) == [i \in 1..Len(s) |-> IF s[i] = " " THEN "_" ELSE s[i]]

\* p occurs in s at position i.
StartsWithAt(s, p, i) ==
    /\ i >= 1
    /\ i + Len(p) - 1 <= Len(s)
    /\ \A j \in 1..Len(p) : s[i + j - 1] = p[j]

\* Python's  p in s  for a non-empty p.
Contains(s, p) == \E i \in 1..Len(s) : StartsWithAt(s, p, i)

\* str.endswith(p)
EndsWith(s, p) == StartsWithAt(s, p, Len(s) - Len(p) + 1)

\* str(n) for an integer n.
RECURSIVE IntToText(_)
IntToText(n) ==
    IF n < 0 THEN <<"-">> \o IntToText(0 - n)
    ELSE IF n < 10 THEN <<Digits[n + 1]>>
    ELSE IntToText(n \div 10) \o <<Digits[(n % 10) + 1]>>

IsDigit(c) == \E i \in 1..Len(Digits) : Digits[i] = c
DigitVal(c) == (CHOOSE i \in 1..Len(Digits) : Digits[i] = c) - 1

\* Width of the padded supplier code.
ZfillWidth == 5

\* The text begins with a sign.
HasSign(s) == Len(s) >= 1 /\ s[1] \in {"+", "-"}

\* Series.str.zfill(width): a text that is already that long is left alone,
\* a shorter one gets "0" characters up to width.  pandas from 1.5 on
\* applies Python's str.zfill, which puts the zeros after a leading "+" or
\* "-" (sign_aware); older releases pad on the left of the whole text.
Zfill(s, width, sign_aware) ==
    LET zeros == [i \in 1..(width - Len(s)) |-> "0"] IN
    IF Len(s) >= width THEN s
    ELSE IF sign_aware /\ HasSign(s) THEN <<s[1]>> \o zeros \o Tail(s)
    ELSE zeros \o s

\* ------------------------------------------------------------------- names

RawSupplier == <<"S","u","p","p","l","i","e","r">>
RawSupplierName == <<"S","u","p","p","l","i","e","r"," ","N","a","m","e">>
RawItemNumber == <<"I","t","e","m"," ","N","u","m","b","e","r">>
RawItemType == <<"I","t","e","m"," ","T","y","p","e">>
RawPoNumber == <<"P","O"," ","N","u","m","b","e","r">>
RawBuyer == <<"B","u","y","e","r">>
RawOrderedQuantity == <<"O","r","d","e","r","e","d","Q","u","a","n","t","i","t","y">>
RawConfDelyDate == <<"C","o","n","f"," ","D","e","l","y"," ","D","a","t","e">>
RawPoRequestedDeliveryDate == <<"P","O"," ","R","e","q","u","e","s","t","e","d"," ","D","e","l","i","v","e","r","y"," ","D","a","t","e">>
RawPlanningDate == <<"P","l","a","n","n","i","n","g"," ","D","a","t","e">>
RawPoLineLowSts == <<"P","O"," ","L","i","n","e"," ","L","o","w"," ","S","t","s">>

\* The header row of Sheet2 of every input file.
RawColumns == <<RawSupplier, RawSupplierName, RawItemNumber, RawItemType,
                RawPoNumber, RawBuyer, RawOrderedQuantity, RawConfDelyDate,
                RawPoRequestedDeliveryDate, RawPlanningDate, RawPoLineLowSts>>

supplier == <<"s","u","p","p","l","i","e","r">>
supplier_name == <<"s","u","p","p","l","i","e","r","_","n","a","m","e">>
item_number == <<"i","t","e","m","_","n","u","m","b","e","r">>
item_type == <<"i","t","e","m","_","t","y","p","e">>
po_number == <<"p","o","_","n","u","m","b","e","r">>
buyer == <<"b","u","y","e","r">>
source_file == <<"s","o","u","r","c","e","_","f","i","l","e">>
Source_File == <<"S","o","u","r","c","e","_","F","i","l","e">>
orderedquantity == <<"o","r","d","e","r","e","d","q","u","a","n","t","i","t","y">>
ordered_quantity == <<"o","r","d","e","r","e","d","_","q","u","a","n","t","i","t","y">>
conf_dely_date == <<"c","o","n","f","_","d","e","l","y","_","d","a","t","e">>
po_requested_delivery_date == <<"p","o","_","r","e","q","u","e","s","t","e","d","_","d","e","l","i","v","e","r","y","_","d","a","t","e">>
planning_date == <<"p","l","a","n","n","i","n","g","_","d","a","t","e">>
po_line_low_sts == <<"p","o","_","l","i","n","e","_","l","o","w","_","s","t","s">>
days_past_due == <<"d","a","y","s","_","p","a","s","t","_","d","u","e">>
date == <<"d","a","t","e">>
Sentinel == <<"-","-","0">>
Fac400Marker == <<"q","r","y","5","1","4","-","f","a","c","4","0","0">>
ExtXlsx == <<".","x","l","s","x">>
ExtXls == <<".","x","l","s">>

text_columns == <<supplier, supplier_name, item_number, item_type,
                  po_number, buyer, source_file>>

\* The status codes of a monitored order.
StatusCodes == {20, 35, 40, 50}

\* The columns of the past-due report, in order.
PastDueColumns == <<po_number, planning_date, po_line_low_sts, buyer,
                    item_number, source_file>>

\* ------------------------------------------------------------------- cells

NullCell == [k |-> "null", s |-> <<>>, n |-> 0]
StrCell(s) == [k |-> "str", s |-> s, n |-> 0]
IntCell(n) == [k |-> "int", s |-> <<>>, n |-> n]
TsCell(t) == [k |-> "ts", s |-> <<>>, n |-> t]
\* A float64 value that is a whole number.
FloatCell(n) == [k |-> "float", s |-> <<>>, n |-> n]

IsNull(c) == c.k = "null"

\* ------------------------------------------------------------------ tables

HasCol(df, name) == \E i \in 1..Len(df.columns) : df.columns[i] = name

ColIndex(df, name) == CHOOSE i \in 1..Len(df.columns) : df.columns[i] = name

\* df[name], one cell per row.
Col(df, name) == [r \in 1..Len(df.rows) |-> df.rows[r][ColIndex(df, name)]]

\* The dtype pandas infers for a column holding these cells.
InferDtype(cells) ==
    IF Len(cells) = 0 THEN "object"
    ELSE IF \A i \in 1..Len(cells) : cells[i].k = "int" THEN "int64"
    ELSE IF \A i \in 1..Len(cells) : cells[i].k \in {"float", "null"} THEN "float64"
    ELSE IF \A i \in 1..Len(cells) : cells[i].k \in {"ts", "null"} THEN "datetime64"
    ELSE "object"

\* df[name] = cells: an existing column is replaced in place, a new one is
\* added on the right.
SetCol(df, name, cells, dtype) ==
    IF HasCol(df, name)
    THEN LET j == ColIndex(df, name) IN
         [columns |-> df.columns,
          dtypes |-> [df.dtypes EXCEPT ![j] = dtype],
          rows |-> [r \in 1..Len(df.rows) |-> [df.rows[r] EXCEPT ![j] = cells[r]]]]
    ELSE [columns |-> Append(df.columns, name),
          dtypes |-> Append(df.dtypes, dtype),
          rows |-> [r \in 1..Len(df.rows) |-> Append(df.rows[r], cells[r])]]

\* df[name] = value, the same value in every row.
SetColScalar(df, name, value) ==
    SetCol(df, name, [r \in 1..Len(df.rows) |-> value], "object")

\* ------------------------------------------------------------ file reading

\* Path.glob("*.xls*") in the robust variant, filename.endswith((".xlsx",
\* ".xls")) in the mb variant.
Eligible(v, name) ==
    IF v = "robust" THEN Contains(name, ExtXls)
    ELSE EndsWith(name, ExtXlsx) \/ EndsWith(name, ExtXls)

\* The texts pd.read_excel reads as a missing value (keep_default_na and
\* na_values are left at their defaults).
DefaultNaValues ==
    {<<"-","1",".","#","I","N","D">>,
     <<"1",".","#","Q","N","A","N">>,
     <<"1",".","#","I","N","D">>,
     <<"-","1",".","#","Q","N","A","N">>,
     <<"#","N","/","A"," ","N","/","A">>,
     <<"#","N","/","A">>,
     <<"N","/","A">>,
     <<"n","/","a">>,
     <<"N","A">>,
     <<"<","N","A",">">>,
     <<"#","N","A">>,
     <<"N","U","L","L">>,
     <<"n","u","l","l">>,
     <<"N","a","N">>,
     <<"-","N","a","N">>,
     <<"n","a","n">>,
     <<"-","n","a","n">>,
     <<"N","o","n","e">>,
     <<>>}

\* One cell of the sheet as read_excel delivers it.
NaFilter(c) == IF c.k = "str" /\ c.s \in DefaultNaValues THEN NullCell ELSE c

\* The digits of a text that may begin with a sign.
Unsigned(s) == IF HasSign(s) THEN Tail(s) ELSE s

\* The text is a whole number to the parser: digits, after a sign or
\* without one.  (Decimal points and exponents are not among the texts of
\* the runs modelled.)
NumericText(s) ==
    /\ Len(Unsigned(s)) >= 1
    /\ \A i \in 1..Len(Unsigned(s)) : IsDigit(Unsigned(s)[i])

\* The value of a text of digits.
RECURSIVE DigitsToInt(_)
DigitsToInt(s) ==
    IF s = <<>> THEN 0
    ELSE 10 * DigitsToInt(SubSeq(s, 1, Len(s) - 1)) + DigitVal(s[Len(s)])

\* int(s) for a text that is a whole number.
TextToInt(s) ==
    IF HasSign(s) /\ s[1] = "-" THEN 0 - DigitsToInt(Unsigned(s))
    ELSE DigitsToInt(Unsigned(s))

\* The number of a cell that is a number or a text that is one.
NumberOf(c) == IF c.k = "str" THEN TextToInt(c.s) ELSE c.n

\* The parser's type inference on a column read without a dtype: when every
\* cell that is not missing is a number or a text that is a number, the
\* column is returned as numbers (int64, or float64 when a cell is missing);
\* any other column is returned as it is.
ConvertNumeric(cells) ==
    IF /\ \E i \in 1..Len(cells) : ~IsNull(cells[i])
       /\ \A i \in 1..Len(cells) :
             \/ cells[i].k \in {"null", "int"}
             \/ cells[i].k = "str" /\ NumericText(cells[i].s)
    THEN IF \E i \in 1..Len(cells) : IsNull(cells[i])
         THEN [i \in 1..Len(cells) |->
                  IF IsNull(cells[i]) THEN NullCell ELSE FloatCell(NumberOf(cells[i]))]
         ELSE [i \in 1..Len(cells) |-> IntCell(NumberOf(cells[i]))]
    ELSE cells

\* A cell read under dtype=str: a number becomes its text, a text and a
\* missing cell stay as they are.
ReadAsStr(c) == IF c.k = "int" THEN StrCell(IntToText(c.n)) ELSE c

\* The column j of the sheet as read_excel delivers it: the missing values
\* marked, then the text typing of a column named in dtype= or the type
\* inference of any other.
SheetColumn(f, j, str_columns) ==
    LET marked == [r \in 1..Len(f.rows) |-> NaFilter(f.rows[r][j])] IN
    IF RawColumns[j] \in str_columns
    THEN [r \in 1..Len(f.rows) |-> ReadAsStr(marked[r])]
    ELSE ConvertNumeric(marked)

\* pd.read_excel(file, sheet_name="Sheet2", dtype={c: str for c in
\* str_columns}).
ReadSheet(f, str_columns) ==
    [columns |-> RawColumns,
     dtypes |-> [j \in 1..Len(RawColumns) |->
                    IF RawColumns[j] \in str_columns THEN "object"
                    ELSE InferDtype(SheetColumn(f, j, str_columns))],
     rows |-> [r \in 1..Len(f.rows) |->
                  [j \in 1..Len(RawColumns) |-> SheetColumn(f, j, str_columns)[r]]]]

\* Series.astype(str) on one cell: a missing cell becomes the text "nan".
AsTypeStr(c) ==
    IF c.k = "int" THEN StrCell(IntToText(c.n))
    ELSE IF c.k = "float" THEN StrCell(IntToText(c.n) \o <<".", "0">>)
    ELSE IF c.k = "null" THEN StrCell(<<"n","a","n">>)
    ELSE c

\* df[name] = df[name].astype(str)
AsTypeStrCol(df, name) ==
    SetCol(df, name, [r \in 1..Len(df.rows) |-> AsTypeStr(Col(df, name)[r])], "object")

\* df[name] = df[name].str.zfill(5)
ZfillCol(df, name, sign_aware) ==
    SetCol(df, name,
           [r \in 1..Len(df.rows) |->
               StrCell(Zfill(Col(df, name)[r].s, ZfillWidth, sign_aware))],
           "object")

\* read_excel_file of the robust variant, for a file that can be read.
read_excel_file(f) == SetColScalar(ReadSheet(f, {}), source_file, StrCell(f.name))

\* The body of the loop of the mb variant's combine_excel_files, for a file
\* that can be read.
ReadExcelMb(f, sign_aware) ==
    LET typed == ReadSheet(f, {RawSupplier, RawItemNumber})
        df == IF Contains(f.name, Fac400Marker)
              THEN AsTypeStrCol(ZfillCol(AsTypeStrCol(typed, RawSupplier), RawSupplier,
                                         sign_aware),
                                RawItemNumber)
              ELSE typed
    IN SetColScalar(df, Source_File, StrCell(f.name))

ReadExcel(v, f, sign_aware) ==
    IF v = "robust" THEN read_excel_file(f) ELSE ReadExcelMb(f, sign_aware)

\* The check for no input left out.
NoValidFilesUnchecked(dfs) == FALSE

\* `if not all_dataframes`
NoValidFiles(dfs) == dfs = <<>>

RECURSIVE AllRows(_)
AllRows(dfs) ==
    IF dfs = <<>> THEN <<>> ELSE Head(dfs).rows \o AllRows(Tail(dfs))

\* The dtype of a column of the concatenation, from the dtypes of the
\* tables that count: one dtype stays, int64 with float64 gives float64,
\* any other mix gives object.
PromoteDtypes(ds) ==
    IF Cardinality(ds) = 1 THEN CHOOSE d \in ds : TRUE
    ELSE IF ds \subseteq {"int64", "float64"} THEN "float64"
    ELSE "object"

\* The tables that count for the dtypes: pandas before 3 leaves the tables
\* without rows out (skip_empty) unless every table is without rows, pandas 3
\* counts them all.
DtypeTables(dfs, skip_empty) ==
    IF skip_empty /\ \E d \in 1..Len(dfs) : Len(dfs[d].rows) > 0
    THEN {d \in 1..Len(dfs) : Len(dfs[d].rows) > 0}
    ELSE 1..Len(dfs)

\* A concatenation that loses the rows of the first table.
ConcatDropsFirst(dfs, skip_empty) ==
    [columns |-> dfs[1].columns,
     dtypes |-> [j \in 1..Len(dfs[1].columns) |->
                    PromoteDtypes({dfs[d].dtypes[j] : d \in DtypeTables(dfs, skip_empty)})],
     rows |-> AllRows(Tail(dfs))]

\* pd.concat(all_dataframes, ignore_index=True) of tables with the same
\* columns: the rows in order, the dtypes promoted, and the integers of a
\* column that comes out float64 turned into floats.
Concat(dfs, skip_empty) ==
    LET dts == [j \in 1..Len(dfs[1].columns) |->
                   PromoteDtypes({dfs[d].dtypes[j] : d \in DtypeTables(dfs, skip_empty)})]
        rs == AllRows(dfs)
    IN [columns |-> dfs[1].columns,
        dtypes |-> dts,
        rows |-> [r \in 1..Len(rs) |->
                     [j \in 1..Len(rs[r]) |->
                         IF dts[j] = "float64" /\ rs[r][j].k = "int"
                         THEN FloatCell(rs[r][j].n) ELSE rs[r][j]]]]

\* -------------------------------------------------------------- normalizer

\* columns.str.lower().str.replace(" ", "_")
LowerUnderscore(df) ==
    [df EXCEPT !.columns = [j \in 1..Len(df.columns) |->
                               ReplaceSpaces(Lower(df.columns[j]))]]

\* A rename by substring, str.replace("ordered", "ordered_"), instead of by
\* the whole name.
RenameOrderedBySubstring(df) ==
    [df EXCEPT !.columns = [j \in 1..Len(df.columns) |->
                               IF StartsWithAt(df.columns[j], SubSeq(orderedquantity, 1, 7), 1)
                               THEN SubSeq(orderedquantity, 1, 7) \o <<"_">>
                                    \o SubSeq(df.columns[j], 8, Len(df.columns[j]))
                               ELSE df.columns[j]]]

\* rename(columns={"orderedquantity": "ordered_quantity"})
RenameOrderedQuantity(df) ==
    [df EXCEPT !.columns = [j \in 1..Len(df.columns) |->
                               IF df.columns[j] = orderedquantity
                               THEN ordered_quantity ELSE df.columns[j]]]

RenameColumns(df) == RenameOrderedQuantity(LowerUnderscore(df))

\* Series.astype("string") on one cell: a number becomes its text, a missing
\* cell stays missing.
AsTypeString(c) ==
    IF c.k = "int" THEN StrCell(IntToText(c.n))
    ELSE IF c.k = "float" THEN StrCell(IntToText(c.n) \o <<".", "0">>)
    ELSE c

RECURSIVE TextLoop(_, _)
TextLoop(df, cols) ==
    IF cols = <<>> THEN df
    ELSE IF HasCol(df, Head(cols))
         THEN TextLoop(SetCol(df, Head(cols),
                              [r \in 1..Len(df.rows) |->
                                  AsTypeString(Col(df, Head(cols))[r])],
                              "string"),
                       Tail(cols))
         ELSE TextLoop(df, Tail(cols))

process_text_columns(df) == TextLoop(df, text_columns)

\* --------------------------------------------------------- date reconciler

JanPrefix == <<"2","0","2","4","-","0","1","-">>

\* The date a text cell parses to: an ISO date of January 2024 at midnight,
\* and no date (a missing cell) for any other text.
ParseDateText(s) ==
    IF /\ Len(s) = Len(JanPrefix) + 2
       /\ StartsWithAt(s, JanPrefix, 1)
       /\ IsDigit(s[Len(s) - 1])
       /\ IsDigit(s[Len(s)])
       /\ 10 * DigitVal(s[Len(s) - 1]) + DigitVal(s[Len(s)]) \in 1..31
    THEN TsCell((10 * DigitVal(s[Len(s) - 1]) + DigitVal(s[Len(s)])) * TicksPerDay)
    ELSE NullCell

\* errors="ignore": a text that does not parse is kept as it is.
ToDatetimeIgnore(c) ==
    IF c.k = "str" /\ ~IsNull(ParseDateText(c.s)) THEN ParseDateText(c.s) ELSE c

\* pd.to_datetime(..., errors="coerce") on one cell.
ToDatetimeCoerce(c) ==
    CASE c.k = "null" -> NullCell
      [] c.k = "ts" -> c
      [] c.k = "str" -> ParseDateText(c.s)

\* pd.to_datetime(...) raises on this cell.
ToDatetimeRaises(c) == c.k = "str" /\ IsNull(ParseDateText(c.s))

\* [col for col in df.columns if "date" in col]
date_columns(df) == SelectSeq(df.columns, LAMBDA c : Contains(c, date))

\* Series.replace("--0", pd.NA) on one cell.
ReplaceSentinel(c) == IF c.k = "str" /\ c.s = Sentinel THEN NullCell ELSE c

\* No back-fill.
FillNaNothing(a, b) == a

\* a.fillna(b) on one pair of cells.
FillNa(a, b) == IF IsNull(a) THEN b ELSE a

RECURSIVE DatetimeLoop(_, _)
DatetimeLoop(df, cols) ==
    IF cols = <<>> THEN df
    ELSE DatetimeLoop(SetCol(df, Head(cols),
                             [r \in 1..Len(df.rows) |->
                                 ToDatetimeCoerce(Col(df, Head(cols))[r])],
                             "datetime64"),
                      Tail(cols))

process_dates(df) ==
    LET replaced == SetCol(df, conf_dely_date,
                           [r \in 1..Len(df.rows) |->
                               ReplaceSentinel(Col(df, conf_dely_date)[r])],
                           df.dtypes[ColIndex(df, conf_dely_date)])
        parsed == DatetimeLoop(replaced, date_columns(df))
    IN SetCol(parsed, conf_dely_date,
              [r \in 1..Len(df.rows) |->
                  FillNa(Col(parsed, conf_dely_date)[r],
                         Col(parsed, po_requested_delivery_date)[r])],
              "datetime64")

\* ---------------------------------------------------------- past-due report

\* pd.Timestamp.now().normalize(): the time truncated to midnight.
Normalize(t) == t - (t % TicksPerDay)

\* The filter with planning_date <= current_date.
IsPastDueInclusive(df, row, current_date) ==
    LET p == row[ColIndex(df, planning_date)]
        st == row[ColIndex(df, po_line_low_sts)]
    IN /\ p.k = "ts"
       /\ p.n <= current_date
       /\ st.k \in {"int", "float"}
       /\ st.n \in StatusCodes

\* The filter of get_past_due_orders on one row of latest_df.
IsPastDue(df, row, current_date) ==
    LET p == row[ColIndex(df, planning_date)]
        st == row[ColIndex(df, po_line_low_sts)]
    IN /\ p.k = "ts"
       /\ p.n < current_date
       /\ st.k \in {"int", "float"}
       /\ st.n \in StatusCodes

\* (current_date - planning_date).dt.days
DaysPastDue(p, current_date) == IntCell((current_date - p.n) \div TicksPerDay)

\* row placed in a sequence that is sorted non-increasing by column j, after
\* the rows whose key is at least its own.
RECURSIVE InsertDesc(_, _, _)
InsertDesc(sorted, row, j) ==
    IF sorted = <<>> THEN <<row>>
    ELSE IF Head(sorted)[j].n >= row[j].n
         THEN <<Head(sorted)>> \o InsertDesc(Tail(sorted), row, j)
         ELSE <<row>> \o sorted

\* The report left in the order of the file.
SortNothing(rows, j) == rows

\* sort_values(column j, ascending=False)
RECURSIVE SortDesc(_, _)
SortDesc(rows, j) ==
    IF rows = <<>> THEN <<>>
    ELSE InsertDesc(SortDesc(SubSeq(rows, 1, Len(rows) - 1), j), rows[Len(rows)], j)

\* df[names]
Project(df, names) ==
    [columns |-> names,
     dtypes |-> [j \in 1..Len(names) |-> df.dtypes[ColIndex(df, names[j])]],
     rows |-> [r \in 1..Len(df.rows) |->
                  [j \in 1..Len(names) |-> df.rows[r][ColIndex(df, names[j])]]]]

\* get_past_due_orders from the read of the latest file to the sort, for a
\* file whose planning dates all parse.
PastDueReport(f, t) ==
    LET latest_df == SetColScalar(LowerUnderscore(ReadSheet(f, {})),
                                  source_file, StrCell(f.name))
        dated == SetCol(latest_df, planning_date,
                        [r \in 1..Len(latest_df.rows) |->
                            ToDatetimeCoerce(Col(latest_df, planning_date)[r])],
                        "datetime64")
        current_date == Normalize(t)
        kept == [dated EXCEPT !.rows =
                    SelectSeq(dated.rows,
                              LAMBDA row : IsPastDue(dated, row, current_date))]
        chosen == Project(kept, PastDueColumns)
        withDays == SetCol(chosen, days_past_due,
                           [r \in 1..Len(chosen.rows) |->
                               DaysPastDue(chosen.rows[r][ColIndex(chosen, planning_date)],
                                           current_date)],
                           "int64")
    IN [withDays EXCEPT !.rows =
           SortDesc(withDays.rows, ColIndex(withDays, days_past_due))]

\* ------------------------------------------------------------------ inputs

Fac400File == <<"q","r","y","5","1","4","-","f","a","c","4","0","0",".","x","l","s","x">>
PlainFile == <<"q","r","y","5","1","4",".","x","l","s","x">>
MacroFile == <<"o","l","d",".","x","l","s","m">>
NotesFile == <<"n","o","t","e","s",".","t","x","t">>

\* The names a spreadsheet can have, and the name of a file that is none.
SheetNames == {Fac400File, PlainFile, MacroFile}

Today == TodayDay * TicksPerDay

\* A row of Sheet2, in the order of RawColumns.
MkRow(sup, conf, req, plan, sts) ==
    <<sup, StrCell(<<"A","c","m","e">>), StrCell(<<"0","7">>), StrCell(<<"P">>),
      IntCell(4500), StrCell(<<"B","o","b">>), IntCell(3), conf, req, plan, sts>>

SupplierCells == {StrCell(<<"1","2","3">>), IntCell(4567)}

\* Supplier codes that begin with a sign, and one that does not.
SignedCells == {StrCell(<<"-","1","2">>), StrCell(<<"+","5">>), StrCell(<<"1","2","3">>)}

ConfCells == {NullCell, StrCell(Sentinel), StrCell(<<"n","/","a">>),
              StrCell(<<"t","b","d">>), TsCell(Today + 1)}

ReqCells == {NullCell, StrCell(Sentinel), StrCell(<<"2","0","2","4","-","0","1","-","0","5">>)}

PlanCells == {NullCell, StrCell(<<"t","b","d">>), TsCell(Today),
              TsCell(Today - 1), TsCell(Today - 2 * TicksPerDay)}

StatusCells == {IntCell(35), IntCell(99)}

LoadRows == {MkRow(sup, TsCell(Today), TsCell(Today), TsCell(Today - TicksPerDay), IntCell(20)) :
                sup \in SupplierCells}

DateRows == {MkRow(StrCell(<<"1","2","3">>), conf, req, TsCell(Today - TicksPerDay), IntCell(20)) :
                conf \in ConfCells, req \in ReqCells}

DueRows == {MkRow(StrCell(<<"1","2","3">>), TsCell(Today), TsCell(Today), plan, sts) :
               plan \in PlanCells, sts \in StatusCells}

SignRows == {MkRow(sup, TsCell(Today), TsCell(Today), TsCell(Today - TicksPerDay), IntCell(20)) :
                sup \in SignedCells}

SeqsUpTo(S, n) == UNION {[1..m -> S] : m \in 0..n}

\* A file that cannot be read has no content the run sees.
FilesOver(names, rows, n) ==
    {[name |-> nm, readable |-> TRUE, rows |-> rs] : nm \in names, rs \in SeqsUpTo(rows, n)}
    \cup {[name |-> nm, readable |-> FALSE, rows |-> <<>>] : nm \in names}

\* The listings of a directory: no two files have the same name.
Listings(files, n) ==
    {d \in SeqsUpTo(files, n) :
        \A i, j \in 1..Len(d) : i # j => d[i].name # d[j].name}

\* The source directories of the four families of runs: several files that
\* differ in name, readability and supplier; one file whose rows differ in
\* the two delivery dates; one file whose rows differ in planning date and
\* status; one qry514-fac400 file whose rows differ in the sign of the
\* supplier.
LoadDirs ==
    Listings(FilesOver(SheetNames, LoadRows, MaxRows)
                 \cup {[name |-> NotesFile, readable |-> FALSE, rows |-> <<>>]},
             MaxFiles)

DateDirs == {<<[name |-> PlainFile, readable |-> TRUE, rows |-> rs]>> :
                rs \in SeqsUpTo(DateRows, MaxDateRows)}

DueDirs == {<<[name |-> PlainFile, readable |-> TRUE, rows |-> rs]>> :
               rs \in SeqsUpTo(DueRows, MaxDueRows)}

SignDirs == {<<[name |-> Fac400File, readable |-> TRUE, rows |-> rs]>> :
                rs \in SeqsUpTo(SignRows, MaxSignRows)}

EmptyTable == [columns |-> <<>>, dtypes |-> <<>>, rows |-> <<>>]

Formats == <<"xlsx", "parquet", "csv">>

\* ------------------------------------------------------------ state machine

Init ==
    /\ variant \in {"robust", "mb"}
    /\ \/ dir \in LoadDirs /\ now = Today
       \/ dir \in DateDirs /\ now = Today
       \/ dir \in DueDirs /\ now \in {Today, Today + 1}
       \/ dir \in SignDirs /\ now = Today
    /\ pc = "start"
    /\ idx = 1
    /\ all_dataframes = <<>>
    /\ combined = EmptyTable
    /\ attempted = <<>>
    /\ written = {}
    /\ error = "none"
    /\ log = {}
    /\ past_due = EmptyTable
    /\ exit_code = -1

\* An exception leaves the stage: the robust variant logs it on the way up to
\* the handler of __main__, the mb variant has no handler.
Raise(kind, where) ==
    /\ error' = kind
    /\ log' = IF variant = "robust" THEN log \cup where ELSE log
    /\ pc' = "exit"

\* setup_file_paths, and the start of combine_excel_files.  The output
\* directory is taken to exist or to be creatable.
Start ==
    /\ pc = "start"
    /\ pc' = "read"
    /\ UNCHANGED <<variant, dir, now, idx, all_dataframes, combined, attempted,
                   written, error, log, past_due, exit_code>>

\* One turn of the loop over the source directory.  The repository pins no
\* pandas version, so either rule of str.zfill for a signed text can be the
\* one in force.
ReadFile ==
    /\ pc = "read"
    /\ idx <= Len(dir)
    /\ LET f == dir[idx] IN
       IF ~Eligible(variant, f.name)
       THEN /\ idx' = idx + 1
            /\ UNCHANGED <<all_dataframes, error, log, pc>>
       ELSE IF f.readable
       THEN /\ \E sign_aware \in BOOLEAN :
                 all_dataframes' = Append(all_dataframes,
                                          ReadExcel(variant, f, sign_aware))
            /\ idx' = idx + 1
            /\ UNCHANGED <<error, log, pc>>
       ELSE IF variant = "robust"
       THEN /\ log' = log \cup {"Error reading file"}
            /\ idx' = idx + 1
            /\ UNCHANGED <<all_dataframes, error, pc>>
       ELSE /\ Raise("FileReadError", {})
            /\ UNCHANGED <<all_dataframes, idx>>
    /\ UNCHANGED <<variant, dir, now, combined, attempted, written, past_due, exit_code>>

\* The end of the loop: the check for no input, and pd.concat.  The
\* repository pins no pandas version, so either rule for the dtypes of
\* tables without rows can be the one in force.
ConcatFiles ==
    /\ pc = "read"
    /\ idx > Len(dir)
    /\ IF variant = "robust" /\ NoValidFiles(all_dataframes)
       THEN /\ Raise("No valid Excel files found", {"Error in main process"})
            /\ UNCHANGED combined
       ELSE IF all_dataframes = <<>>
       THEN /\ Raise("No objects to concatenate", {"Error in main process"})
            /\ UNCHANGED combined
       ELSE /\ \E skip_empty \in BOOLEAN :
                 combined' = Concat(all_dataframes, skip_empty)
            /\ pc' = "rename"
            /\ UNCHANGED <<error, log>>
    /\ UNCHANGED <<variant, dir, now, idx, all_dataframes, attempted, written,
                   past_due, exit_code>>

\* The two renaming statements.
Rename ==
    /\ pc = "rename"
    /\ combined' = RenameColumns(combined)
    /\ pc' = "dates"
    /\ UNCHANGED <<variant, dir, now, idx, all_dataframes, attempted, written,
                   error, log, past_due, exit_code>>

\* process_dates, and the same statements of the mb variant.
ProcessDates ==
    /\ pc = "dates"
    /\ IF HasCol(combined, conf_dely_date) /\ HasCol(combined, po_requested_delivery_date)
       THEN /\ combined' = process_dates(combined)
            /\ pc' = "text"
            /\ UNCHANGED <<error, log>>
       ELSE /\ Raise("KeyError", {"Error processing dates", "Error in main process"})
            /\ UNCHANGED combined
    /\ UNCHANGED <<variant, dir, now, idx, all_dataframes, attempted, written,
                   past_due, exit_code>>

\* process_text_columns; the mb variant's loop does not test for the column.
ProcessText ==
    /\ pc = "text"
    /\ IF variant = "mb" /\ \E j \in 1..Len(text_columns) : ~HasCol(combined, text_columns[j])
       THEN /\ Raise("KeyError", {})
            /\ UNCHANGED combined
       ELSE /\ combined' = process_text_columns(combined)
            /\ pc' = "export"
            /\ UNCHANGED <<error, log>>
    /\ UNCHANGED <<variant, dir, now, idx, all_dataframes, attempted, written,
                   past_due, exit_code>>

OutputFile(fmt) ==
    CASE fmt = "xlsx" -> "combined_data.xlsx"
      [] fmt = "parquet" -> "combined_data.parquet"
      [] fmt = "csv" -> "combined_data.csv"

\* The next write of export_data (of the export statements of the mb
\* variant): it succeeds or raises, and a raise ends the export.
Export ==
    /\ pc = "export"
    /\ LET fmt == Formats[Len(attempted) + 1] IN
       /\ attempted' = Append(attempted, fmt)
       /\ \E ok \in BOOLEAN :
            IF ok
            THEN /\ written' = written \cup {OutputFile(fmt)}
                 /\ pc' = IF Len(attempted') < Len(Formats) THEN "export"
                          ELSE IF variant = "robust" THEN "past_due" ELSE "exit"
                 /\ UNCHANGED <<error, log>>
            ELSE /\ Raise("ExportError", {"Error exporting data", "Error in main process"})
                 /\ UNCHANGED written
    /\ UNCHANGED <<variant, dir, now, idx, all_dataframes, combined, past_due, exit_code>>

\* get_past_due_orders: the latest file is any of the files the glob finds;
\* the read, the parse of planning_date and the write of the report can raise.
GetPastDue ==
    /\ pc = "past_due"
    /\ \E i \in {j \in 1..Len(dir) : Eligible(variant, dir[j].name)} :
         LET f == dir[i] IN
         IF ~f.readable
         THEN /\ Raise("FileReadError", {"Error processing past due orders"})
              /\ UNCHANGED <<past_due, written>>
         ELSE IF \E r \in 1..Len(f.rows) :
                    ToDatetimeRaises(Col(ReadSheet(f, {}), RawPlanningDate)[r])
         THEN /\ Raise("DateParseError", {"Error processing past due orders"})
              /\ UNCHANGED <<past_due, written>>
         ELSE \E ok \in BOOLEAN :
                IF ok
                THEN /\ past_due' = PastDueReport(f, now)
                     /\ written' = written \cup {"past_due_orders.csv"}
                     /\ pc' = "exit"
                     /\ UNCHANGED <<error, log>>
                ELSE /\ Raise("ExportError", {"Error processing past due orders"})
                     /\ UNCHANGED <<past_due, written>>
    /\ UNCHANGED <<variant, dir, now, idx, all_dataframes, combined, attempted, exit_code>>

\* The status the process ends with: the handler of __main__ logs the
\* exception and the script runs off its end; the mb variant has no handler
\* and the interpreter ends with status 1 on an exception.
ExitStatus(v, err) == IF v = "mb" /\ err # "none" THEN 1 ELSE 0

Exit ==
    /\ pc = "exit"
    /\ exit_code' = ExitStatus(variant, error)
    /\ log' = IF variant = "robust"
              THEN log \cup {IF error = "none" THEN "Process completed successfully"
                             ELSE "Process failed"}
              ELSE log
    /\ pc' = "done"
    /\ UNCHANGED <<variant, dir, now, idx, all_dataframes, combined, attempted,
                   written, error, past_due>>

Next ==
    \/ Start
    \/ ReadFile
    \/ ConcatFiles
    \/ Rename
    \/ ProcessDates
    \/ ProcessText
    \/ Export
    \/ GetPastDue
    \/ Exit

Spec == Init /\ [][Next]_vars

\* ------------------------------------------------------------- properties

\* The rows of the files of the directory that are eligible and can be read,
\* in the order of the listing, each with the name of its file.
RECURSIVE RowsOfFiles(_, _)
RowsOfFiles(v, d) ==
    IF d = <<>> THEN <<>>
    ELSE (IF Eligible(v, Head(d).name) /\ Head(d).readable
          THEN [r \in 1..Len(Head(d).rows) |->
                   [file |-> Head(d).name, row |-> Head(d).rows[r]]]
          ELSE <<>>)
         \o RowsOfFiles(v, Tail(d))

SourceRows == RowsOfFiles(variant, dir)

SomeReadable == \E i \in 1..Len(dir) : Eligible(variant, dir[i].name) /\ dir[i].readable

SomeUnreadable == \E i \in 1..Len(dir) : Eligible(variant, dir[i].name) /\ ~dir[i].readable

\* The loop over the directory is over.
LoadingOver == pc \notin {"start", "read"}

\* pd.concat has built the table.
Concatenated == combined # EmptyTable

\* process_dates has returned.
Reconciled == pc \in {"text", "export", "past_due", "exit", "done"} /\ Concatenated

\* The renaming and process_text_columns are done.
Normalized == pc \in {"export", "past_due", "exit", "done"} /\ Concatenated

\* get_past_due_orders has returned its table.
Reported == "past_due_orders.csv" \in written

\* The position of a column in the header row of Sheet2.
RawIndex(name) == CHOOSE j \in 1..Len(RawColumns) : RawColumns[j] = name

\* The two delivery dates of a source row as read from the sheet: a text
\* that read_excel takes for a missing value is null.
SrcConf(r) == NaFilter(SourceRows[r].row[RawIndex(RawConfDelyDate)])
SrcReq(r) == NaFilter(SourceRows[r].row[RawIndex(RawPoRequestedDeliveryDate)])
SrcSupplier(r) == SourceRows[r].row[RawIndex(RawSupplier)]

\* The cell holds a date: a timestamp, or a text that parses to one.
HoldsDate(c) == c.k = "ts" \/ (c.k = "str" /\ ~IsNull(ParseDateText(c.s)))

\* C1, as stated: whenever some file of the directory can be read, the table
\* is built once the loop is over, with as many rows as the readable files
\* hold: a file that fails contributes nothing and the others are loaded.
C1_Original ==
    (LoadingOver /\ SomeReadable) =>
        (Concatenated /\ Len(combined.rows) = Len(SourceRows))

\* C1, amended: the table pd.concat builds has as many rows as the files read
\* successfully hold together; in the robust variant a file whose read fails
\* contributes nothing and the others are still loaded, in the mb variant a
\* failed read ends the run and no table is built.
C1_RowCount ==
    /\ Concatenated => Len(combined.rows) = Len(SourceRows)
    /\ (variant = "robust" /\ LoadingOver /\ SomeReadable) => Concatenated
    /\ (variant = "mb" /\ LoadingOver /\ SomeUnreadable) =>
           (~Concatenated /\ error = "FileReadError")

C1_Witness ==
    /\ variant = "robust"
    /\ Concatenated
    /\ SomeUnreadable
    /\ Len(dir) = 2
    /\ Len(combined.rows) = 1
    /\ "Error reading file" \in log

\* C2, as stated: after reconciliation conf_dely_date is null exactly when
\* both source cells were null.
C2_Original ==
    Reconciled =>
        \A r \in 1..Len(combined.rows) :
            IsNull(Col(combined, conf_dely_date)[r])
                <=> (IsNull(SrcConf(r)) /\ IsNull(SrcReq(r)))

\* C2, amended: after reconciliation conf_dely_date is null exactly when
\* neither source cell holds a date: conf_dely_date is null, "--0" or text
\* that does not parse, and po_requested_delivery_date is null or text that
\* does not parse.
C2_NullIffNoDate ==
    Reconciled =>
        \A r \in 1..Len(combined.rows) :
            IsNull(Col(combined, conf_dely_date)[r])
                <=> (~HoldsDate(SrcConf(r)) /\ ~HoldsDate(SrcReq(r)))

C2_Witness ==
    /\ Reconciled
    /\ Len(combined.rows) = 2
    /\ SrcConf(1) = StrCell(Sentinel) /\ IsNull(SrcReq(1))
    /\ IsNull(Col(combined, conf_dely_date)[1])
    /\ SrcConf(2) = StrCell(<<"t","b","d">>) /\ HoldsDate(SrcReq(2))
    /\ ~IsNull(Col(combined, conf_dely_date)[2])

\* C3, as stated: a source conf_dely_date of "--0" is null after
\* reconciliation, whatever po_requested_delivery_date holds.
C3_Original ==
    Reconciled =>
        \A r \in 1..Len(combined.rows) :
            SrcConf(r) = StrCell(Sentinel) => IsNull(Col(combined, conf_dely_date)[r])

\* C3, amended: a source conf_dely_date of "--0" is never read as a date of
\* its own: after reconciliation the cell holds the row's
\* po_requested_delivery_date, and is null exactly when that holds no date.
C3_SentinelBackFilled ==
    Reconciled =>
        \A r \in 1..Len(combined.rows) :
            SrcConf(r) = StrCell(Sentinel) =>
                /\ Col(combined, conf_dely_date)[r]
                       = Col(combined, po_requested_delivery_date)[r]
                /\ IsNull(Col(combined, conf_dely_date)[r]) <=> ~HoldsDate(SrcReq(r))

C3_Witness ==
    /\ Reconciled
    /\ Len(combined.rows) >= 1
    /\ SrcConf(1) = StrCell(Sentinel)
    /\ HoldsDate(SrcReq(1))
    /\ Col(combined, conf_dely_date)[1].k = "ts"

\* C4: when no file of the directory yields a table, nothing is ever written
\* or attempted, the run ends with an error, and in the robust variant that
\* error is the no-input error.
C4_NoInputNoOutput ==
    ~SomeReadable =>
        /\ written = {}
        /\ attempted = <<>>
        /\ pc \notin {"rename", "dates", "text", "export", "past_due"}
        /\ pc \in {"exit", "done"} =>
              /\ error # "none"
              /\ variant = "robust" => error = "No valid Excel files found"

C4_Witness ==
    /\ variant = "robust"
    /\ ~SomeReadable
    /\ SomeUnreadable
    /\ pc = "done"
    /\ error = "No valid Excel files found"

\* C5: every row of the past-due report has a status code of the monitored
\* set and a planning date, not null, strictly before today at midnight.
C5_PastDueFilter ==
    Reported =>
        \A r \in 1..Len(past_due.rows) :
            LET p == Col(past_due, planning_date)[r]
                st == Col(past_due, po_line_low_sts)[r]
            IN /\ st.k \in {"int", "float"} /\ st.n \in {20, 35, 40, 50}
               /\ p.k = "ts"
               /\ p.n < now - (now % TicksPerDay)

C5_Witness ==
    /\ Reported
    /\ Len(past_due.rows) = 1
    /\ Len(dir[1].rows) = 2
    /\ \E r \in 1..2 : dir[1].rows[r][RawIndex(RawPlanningDate)] = TsCell(Today)
    /\ now > Today

\* C6: the rows of the past-due report are in non-increasing order of
\* days_past_due, which is today minus the planning date in whole days and is
\* never negative.
C6_SortedByDaysPastDue ==
    Reported =>
        /\ \A r \in 1..Len(past_due.rows) :
              LET d == Col(past_due, days_past_due)[r]
                  p == Col(past_due, planning_date)[r]
              IN /\ d.k = "int"
                 /\ d.n >= 0
                 /\ d.n * TicksPerDay <= (now - (now % TicksPerDay)) - p.n
                 /\ (d.n + 1) * TicksPerDay > (now - (now % TicksPerDay)) - p.n
        /\ \A r \in 1..(Len(past_due.rows) - 1) :
              Col(past_due, days_past_due)[r].n >= Col(past_due, days_past_due)[r + 1].n

C6_Witness ==
    /\ Reported
    /\ Len(past_due.rows) = 2
    /\ dir[1].rows[1][RawIndex(RawPlanningDate)] = TsCell(Today - 1)
    /\ dir[1].rows[2][RawIndex(RawPlanningDate)] = TsCell(Today - 2 * TicksPerDay)
    /\ Col(past_due, days_past_due)[1].n = 2
    /\ Col(past_due, days_past_due)[2].n = 0

\* The text of a source cell.
TextOf(c) == IF c.k = "int" THEN IntToText(c.n) ELSE c.s

\* C7: in the normalized table of both variants the supplier is text, padded
\* with zeros to 5 characters (by either rule of str.zfill for a signed
\* text) in the rows of a file whose name contains "qry514-fac400" and
\* unpadded in the rows of any other file.
C7_SupplierPadding ==
    Normalized =>
        \A r \in 1..Len(combined.rows) :
            LET out == Col(combined, supplier)[r] IN
            /\ out.k = "str"
            /\ out.s \in IF Contains(SourceRows[r].file, Fac400Marker)
                         THEN {Zfill(TextOf(SrcSupplier(r)), 5, sign_aware) :
                                  sign_aware \in BOOLEAN}
                         ELSE {TextOf(SrcSupplier(r))}

\* C8: the renaming and process_text_columns applied to the normalized table
\* give the same table: the same column names, types and cells.
C8_Idempotent ==
    Normalized => process_text_columns(RenameColumns(combined)) = combined

C8_Witness ==
    /\ Normalized
    /\ Len(combined.rows) >= 1
    /\ HasCol(combined, ordered_quantity)
    /\ SrcSupplier(1).k = "int"
    /\ Col(combined, supplier)[1].k = "str"
    /\ combined.dtypes[ColIndex(combined, supplier)] = "string"

\* C9: every call of export_data attempts the three writes, in order, also
\* after one of them has failed.
C9_AllFormatsAttempted ==
    (pc \in {"past_due", "exit", "done"} /\ attempted # <<>>) => attempted = Formats

\* C10: the process ends with status 0 exactly when no stage raised.
C10_ExitStatus ==
    pc = "done" => (exit_code = 0 <=> error = "none")

====
